---- MODULE Spec2Model ----
(***************************************************************************)
(* Model of src/core/manager/folder.rs: the view state of one directory   *)
(* pane (cursor, scroll offset, page, hovered snapshot, selection flags)   *)
(* and its mutating operations.  Every method of Folder is an operator     *)
(* from a folder record to a result record [s, ret, panic, overflow, at];   *)
(* the actions apply one method call each to the current state.            *)
(*                                                                         *)
(* usize values: a value below 2^63 is the integer itself; the value       *)
(* 2^64 - k is the integer -k.  Addition and subtraction modulo 2^64 are   *)
(* then the addition and subtraction of integers, and the order of usize   *)
(* is USizeLess.                                                           *)
(***************************************************************************)
EXTENDS Integers, Sequences, FiniteSets, TLC

VARIABLES files, show_hidden, offset, cursor, page, hovered,
          ws_row, emits, last, aborted, advances, release

vars == <<files, show_hidden, offset, cursor, page, hovered,
          ws_row, emits, last, aborted, advances, release>>

\* ---------------------------------------------------------------- bounds
MaxPath == 2
MaxStep == 2
MaxRows == 4
MaxNavLen == 25
MaxNavRows == 12
MaxNavStep == 4
MaxViewPath == 8
MinViewRows == 7
MaxViewRows == 9
MaxViewStep == 3
MaxSelLen == 5
MaxHuge == 2

\* ------------------------------------------------------------- constants
DIR_PADDING == 2
ScrollMargin == 5

\* --------------------------------------------------------------- helpers
Min(a, b) == IF a < b THEN a ELSE b

Max(a, b) == IF a > b THEN a ELSE b

\* usize::MAX, and the order of usize
USIZE_MAX == -1

USizeLess(a, b) == IF (a < 0) = (b < 0) THEN a < b ELSE b < 0

\* usize::min
UMin(a, b) == IF USizeLess(b, a) THEN b ELSE a

\* usize::saturating_sub
SatSub(a, b) == IF USizeLess(b, a) THEN a - b ELSE 0

\* a + b is above usize::MAX
AddOverflows(a, b) ==
    IF a < 0 /\ b < 0 THEN TRUE
    ELSE IF a >= 0 /\ b >= 0 THEN FALSE
         ELSE a + b >= 0

\* a - b is below 0
SubOverflows(a, b) == USizeLess(a, b)

\* Option<T> is a sequence of length 0 (None) or 1 (Some)
None == <<>>

Some(x) == <<x>>

Paths == 1..MaxPath

File(p, sel) == [path |-> p, is_selected |-> sel]

\* the result of a call: the folder s and the value b it returned.  When
\* an addition or subtraction of the call left the range of usize,
\* overflow is set, s and ret are the outcome of a build that wraps and
\* `at` is the folder at the point where a build that checks the
\* arithmetic panics
Ret(s, b) ==
    [s |-> s, ret |-> b, panic |-> FALSE, overflow |-> FALSE, at |-> s]

\* the result of a call that ran the call with result r first
After(r, s, b) ==
    [s |-> s, ret |-> b, panic |-> FALSE, overflow |-> r.overflow, at |-> r.at]

\* the result of a call that panicked with the folder s
Panicked(s) ==
    [s |-> s, ret |-> FALSE, panic |-> TRUE, overflow |-> FALSE, at |-> s]

\* ------------------------------------------------- the Files collaborator
\* Files::len is Len; Files::duplicate(idx) clones the entry at idx, if any
duplicate(fs, idx) == IF idx < Len(fs) THEN Some(fs[idx + 1]) ELSE None

\* Files::update_read: the possible outcomes of the delegated merge.  The
\* listing is replaced and a change reported; an identical listing may also
\* be reported as no change.
update_read(fs, items) ==
    {[files |-> items, b |-> TRUE]}
        \cup (IF items = fs THEN {[files |-> fs, b |-> FALSE]} ELSE {})

\* Files::update_search: as update_read, for search results.
update_search(fs, items) ==
    {[files |-> items, b |-> TRUE]}
        \cup (IF items = fs THEN {[files |-> fs, b |-> FALSE]} ELSE {})

\* Folder::limit
limit(rows) == SatSub(rows, DIR_PADDING)

\* Folder::position: index of the first entry with this path
position(f, path) ==
    LET hits == {i \in 0..(Len(f.files) - 1) : f.files[i + 1].path = path}
    IN IF hits = {} THEN None
       ELSE Some(CHOOSE i \in hits : \A j \in hits : i <= j)

\* ------------------------------------------------------------ the methods
\* set_page, but a notification is emitted on every call
set_page_always_emits(f, force, lim) ==
    LET new == IF lim = 0 THEN 0 ELSE f.cursor \div lim
    IN Ret([f EXCEPT !.page = new,
                     !.emits = Append(@, <<"Pages", new>>)], TRUE)

\* Folder::set_page
set_page(f, force, lim) ==
    LET new == IF lim = 0 THEN 0 ELSE f.cursor \div lim
    IN IF ~force /\ f.page = new
       THEN Ret(f, FALSE)
       ELSE Ret([f EXCEPT !.page = new,
                          !.emits = Append(@, <<"Pages", new>>)], TRUE)

\* next, but the offset is not clamped to len - limit
next_unclamped_offset(f, step, lim) ==
    LET len == Len(f.files)
    IN IF len = 0
       THEN Ret(f, FALSE)
       ELSE LET old == f.cursor
                cur == UMin(f.cursor + step, len - 1)
                f1 == [f EXCEPT !.cursor = cur,
                                !.hovered = duplicate(f.files, cur)]
                f2 == set_page(f1, FALSE, lim).s
                scroll == cur >= SatSub(Min(f2.offset + lim, len), ScrollMargin)
                f3 == IF scroll
                      THEN [f2 EXCEPT !.offset = f2.offset + cur - old]
                      ELSE f2
            IN [s |-> f3, ret |-> old # cur, panic |-> FALSE,
                overflow |-> \/ AddOverflows(f.cursor, step)
                             \/ scroll /\ SubOverflows(f2.offset + cur, old),
                at |-> IF AddOverflows(f.cursor, step) THEN f ELSE f2]

\* Folder::next
next(f, step, lim) ==
    LET len == Len(f.files)
    IN IF len = 0
       THEN Ret(f, FALSE)
       ELSE LET old == f.cursor
                cur == UMin(f.cursor + step, len - 1)
                f1 == [f EXCEPT !.cursor = cur,
                                !.hovered = duplicate(f.files, cur)]
                f2 == set_page(f1, FALSE, lim).s
                scroll == cur >= SatSub(Min(f2.offset + lim, len), ScrollMargin)
                f3 == IF scroll
                      THEN [f2 EXCEPT !.offset =
                               UMin(SatSub(len, lim), f2.offset + cur - old)]
                      ELSE f2
            IN [s |-> f3, ret |-> old # cur, panic |-> FALSE,
                overflow |-> \/ AddOverflows(f.cursor, step)
                             \/ scroll /\ SubOverflows(f2.offset + cur, old),
                at |-> IF AddOverflows(f.cursor, step) THEN f ELSE f2]

\* prev, but the hovered snapshot is not refreshed
prev_stale_hovered(f, step, lim) ==
    LET old == f.cursor
        cur == SatSub(f.cursor, step)
        f1 == [f EXCEPT !.cursor = cur]
        f2 == set_page(f1, FALSE, lim).s
        f3 == IF cur < f2.offset + ScrollMargin
              THEN [f2 EXCEPT !.offset = SatSub(f2.offset, old - cur)]
              ELSE f2
    IN Ret(f3, old # cur)

\* prev, but a change is reported whenever the step is not zero
prev_reports_step(f, step, lim) ==
    LET old == f.cursor
        cur == SatSub(f.cursor, step)
        f1 == [f EXCEPT !.cursor = cur,
                        !.hovered = duplicate(f.files, cur)]
        f2 == set_page(f1, FALSE, lim).s
        f3 == IF cur < f2.offset + ScrollMargin
              THEN [f2 EXCEPT !.offset = SatSub(f2.offset, old - cur)]
              ELSE f2
    IN Ret(f3, step # 0)

\* Folder::prev
prev(f, step, lim) ==
    LET old == f.cursor
        cur == SatSub(f.cursor, step)
        f1 == [f EXCEPT !.cursor = cur,
                        !.hovered = duplicate(f.files, cur)]
        f2 == set_page(f1, FALSE, lim).s
        f3 == IF cur < f2.offset + ScrollMargin
              THEN [f2 EXCEPT !.offset = SatSub(f2.offset, old - cur)]
              ELSE f2
    IN Ret(f3, old # cur)

\* hidden, but the explicit value is ignored and the flag always flips
hidden_flips_always(f, show) ==
    Ret([f EXCEPT !.show_hidden = ~f.show_hidden,
                  !.emits = Append(@, <<"Refresh", 0>>)], FALSE)

\* Folder::hidden
hidden(f, show) ==
    IF show = None \/ f.show_hidden # show[1]
    THEN Ret([f EXCEPT !.show_hidden = ~f.show_hidden,
                       !.emits = Append(@, <<"Refresh", 0>>)], FALSE)
    ELSE Ret(f, FALSE)

\* Folder::window: the indices [offset, end) of the visible slice
window(f, lim) ==
    LET end == Min(f.offset + lim, Len(f.files))
    IN IF f.offset <= end
       THEN [slice |-> {i \in 0..(Len(f.files) - 1) : f.offset <= i /\ i < end},
             panic |-> FALSE]
       ELSE [slice |-> {}, panic |-> TRUE]

\* apply, but a forced state is reported as a change even when it was set
apply_reports_always(f, idx, state) ==
    IF state = None
    THEN Ret([f EXCEPT !.files[idx + 1].is_selected = ~@], TRUE)
    ELSE Ret([f EXCEPT !.files[idx + 1].is_selected = state[1]], TRUE)

\* the closure `apply` of Folder::select
apply(f, idx, state) ==
    IF state = None
    THEN Ret([f EXCEPT !.files[idx + 1].is_selected = ~@], TRUE)
    ELSE IF state[1] # f.files[idx + 1].is_selected
         THEN Ret([f EXCEPT !.files[idx + 1].is_selected = state[1]], TRUE)
         ELSE Ret(f, FALSE)

\* the loop `for i in 0..len` of Folder::select, from index i on
RECURSIVE select_all(_, _, _, _)
select_all(f, i, state, applied) ==
    IF i >= Len(f.files)
    THEN Ret(f, applied)
    ELSE LET r == apply(f, i, state)
         IN select_all(r.s, i + 1, state, applied \/ r.ret)

\* Folder::select
select(f, idx, state) ==
    IF idx # None
    THEN IF idx[1] < Len(f.files) THEN apply(f, idx[1], state) ELSE Ret(f, FALSE)
    ELSE select_all(f, 0, state, FALSE)

\* hover, but a path that is not found falls back to index 0
hover_default_zero(f, path, lim) ==
    IF f.hovered # None /\ f.hovered[1].path = path
    THEN Ret(f, FALSE)
    ELSE LET p == position(f, path)
             new == IF p = None THEN 0 ELSE p[1]
         IN IF new > f.cursor
            THEN next(f, new - f.cursor, lim)
            ELSE prev(f, f.cursor - new, lim)

\* Folder::hover
hover(f, path, lim) ==
    IF f.hovered # None /\ f.hovered[1].path = path
    THEN Ret(f, FALSE)
    ELSE LET p == position(f, path)
             new == IF p = None THEN f.cursor ELSE p[1]
         IN IF new > f.cursor
            THEN next(f, new - f.cursor, lim)
            ELSE prev(f, f.cursor - new, lim)

\* hover_force, but the entry is adopted without looking at the listing
hover_force_any_listing(f, file, lim) ==
    LET r == hover(f, file.path, lim)
    IN IF ~r.ret
       THEN After(r, [r.s EXCEPT !.hovered = Some(file)], TRUE)
       ELSE After(r, r.s, FALSE)

\* Folder::hover_force
hover_force(f, file, lim) ==
    LET r == hover(f, file.path, lim)
    IN IF ~r.ret /\ Len(r.s.files) = 0
       THEN After(r, [r.s EXCEPT !.hovered = Some(file)], TRUE)
       ELSE After(r, r.s, FALSE)

\* reconcile, but the cursor is not clamped to the new length
reconcile_no_clamp(f, m, lim) ==
    IF ~m.b
    THEN Ret(f, FALSE)
    ELSE LET len == Len(m.files)
             f1 == [f EXCEPT !.files = m.files,
                             !.offset = Min(f.offset, len)]
             f2 == set_page(f1, TRUE, lim).s
             h == IF f2.hovered # None
                  THEN hover(f2, f2.hovered[1].path, lim)
                  ELSE Ret(f2, FALSE)
             f3 == h.s
         IN After(h, [f3 EXCEPT !.hovered = duplicate(f3.files, f3.cursor)],
                  TRUE)

\* reconcile, but the page is recomputed before the merge report is read
reconcile_page_first(f, m, lim) ==
    LET f0 == set_page(f, TRUE, lim).s
    IN IF ~m.b
       THEN Ret(f0, FALSE)
       ELSE LET len == Len(m.files)
                f1 == [f0 EXCEPT !.files = m.files,
                                 !.offset = Min(f.offset, len),
                                 !.cursor = Min(f.cursor, SatSub(len, 1))]
                f2 == set_page(f1, TRUE, lim).s
                h == IF f2.hovered # None
                     THEN hover(f2, f2.hovered[1].path, lim)
                     ELSE Ret(f2, FALSE)
                f3 == h.s
            IN After(h, [f3 EXCEPT !.hovered = duplicate(f3.files, f3.cursor)],
                     TRUE)

\* reconcile, but the cursor goes back to the first entry
reconcile_resets_cursor(f, m, lim) ==
    IF ~m.b
    THEN Ret(f, FALSE)
    ELSE LET len == Len(m.files)
             f1 == [f EXCEPT !.files = m.files,
                             !.offset = Min(f.offset, len),
                             !.cursor = 0]
             f2 == set_page(f1, TRUE, lim).s
             h == IF f2.hovered # None
                  THEN hover(f2, f2.hovered[1].path, lim)
                  ELSE Ret(f2, FALSE)
             f3 == h.s
         IN After(h, [f3 EXCEPT !.hovered = duplicate(f3.files, f3.cursor)],
                  TRUE)

\* Folder::update after the merge reported outcome m
reconcile(f, m, lim) ==
    IF ~m.b
    THEN Ret(f, FALSE)
    ELSE LET len == Len(m.files)
             f1 == [f EXCEPT !.files = m.files,
                             !.offset = Min(f.offset, len),
                             !.cursor = Min(f.cursor, SatSub(len, 1))]
             f2 == set_page(f1, TRUE, lim).s
             h == IF f2.hovered # None
                  THEN hover(f2, f2.hovered[1].path, lim)
                  ELSE Ret(f2, FALSE)
             f3 == h.s
         IN After(h, [f3 EXCEPT !.hovered = duplicate(f3.files, f3.cursor)],
                  TRUE)

\* the result r of an update whose merge reported b (None: no merge ran)
Reported(r, b) ==
    [s |-> r.s, ret |-> r.ret, panic |-> r.panic, overflow |-> r.overflow,
     at |-> r.at, merged |-> b]

\* update, but an unsupported FilesOp is ignored
update_ignores_other(f, op, lim) ==
    IF op.kind = "Read"
    THEN {Reported(reconcile(f, m, lim), Some(m.b))
          : m \in update_read(f.files, op.items)}
    ELSE IF op.kind = "Search"
         THEN {Reported(reconcile(f, m, lim), Some(m.b))
               : m \in update_search(f.files, op.items)}
         ELSE {Reported(Ret(f, FALSE), None)}

\* Folder::update: the set of possible results for a FilesOp
update(f, op, lim) ==
    IF op.kind = "Read"
    THEN {Reported(reconcile(f, m, lim), Some(m.b))
          : m \in update_read(f.files, op.items)}
    ELSE IF op.kind = "Search"
         THEN {Reported(reconcile(f, m, lim), Some(m.b))
               : m \in update_search(f.files, op.items)}
         ELSE {Reported(Panicked(f), None)}

\* Folder::paginate: the indices [start, end) of the page slice
paginate(f, lim) ==
    LET max == SatSub(Len(f.files), 1)
        start == Min(f.page * lim, max)
        end == Min(start + lim, max)
    IN {i \in 0..(Len(f.files) - 1) : start <= i /\ i < end}

\* Folder::paginate: the range start..end handed to get_range, which fails
\* (and the unwrap panics) unless start <= end <= len
paginate_range(f, lim) ==
    LET max == SatSub(Len(f.files), 1)
        start == Min(f.page * lim, max)
        end == Min(start + lim, max)
    IN [start |-> start, end |-> end,
        panic |-> ~(start <= end /\ end <= Len(f.files))]

\* Folder::rect_current: the row of the path, a usize subtraction cast to
\* u16.  When the subtraction underflows, y is the row of a build that
\* wraps and a build that checks the arithmetic panics
rect_current(f, path) ==
    LET p == position(f, path)
    IN IF p = None THEN [y |-> None, underflow |-> FALSE]
       ELSE [y |-> Some((p[1] - f.offset) % 65536),
             underflow |-> SubOverflows(p[1], f.offset)]

\* ------------------------------------------------------------------ state
\* Folder::new: the Default value of every field
NewFolder(hid) ==
    [files |-> <<>>, show_hidden |-> hid, offset |-> 0, cursor |-> 0,
     page |-> 0, hovered |-> None, emits |-> <<>>]

\* the Folder `self` at the start of a call (nothing emitted yet)
Self ==
    [files |-> files, show_hidden |-> show_hidden, offset |-> offset,
     cursor |-> cursor, page |-> page, hovered |-> hovered, emits |-> <<>>]

\* the fields of `self` before the call, kept for the postconditions
Pre == [cursor |-> cursor, offset |-> offset, page |-> page,
        hovered |-> hovered]

\* the heights a terminal can have: no row at all, or min to max rows
Rows(min, max) == {0} \cup min..max

\* the listings a FilesOp can carry: sequences of distinct paths
Listings ==
    {<<>>} \cup
    UNION {{s \in [1..n -> Paths] : \A i, j \in 1..n : i # j => s[i] # s[j]}
           : n \in 1..MaxPath}

Items(s) == [i \in 1..Len(s) |-> File(s[i], FALSE)]

\* the listing 1, 2, ..., n
Range(n) == [i \in 1..n |-> i]

\* the state after a call that ended with the folder s, the return value
\* ret and, if it panicked, panic; `last` keeps the call's name, its
\* argument (next, prev, hover, hover_force), its return value
\* and, for update, the fields before the call
Commit(s, ret, panic, name, arg) ==
    /\ files' = s.files
    /\ show_hidden' = s.show_hidden
    /\ offset' = s.offset
    /\ cursor' = s.cursor
    /\ page' = s.page
    /\ hovered' = s.hovered
    /\ emits' = s.emits
    /\ aborted' = panic
    /\ last' = [op |-> name, arg |-> arg, ret |-> ret,
                pre |-> IF name = "update" THEN Some(Pre) ELSE None]
    /\ UNCHANGED ws_row

\* the state after a call with result r.  Arithmetic that leaves the range
\* of usize wraps in a build without overflow checks and panics in a build
\* with them; which build runs is open until the first wrap
Apply(r, name, arg) ==
    \/ /\ ~r.overflow
       /\ Commit(r.s, r.ret, r.panic, name, arg)
       /\ UNCHANGED release
    \/ /\ r.overflow
       /\ Commit(r.s, r.ret, r.panic, name, arg)
       /\ release' = TRUE
    \/ /\ r.overflow
       /\ ~release
       /\ Commit(r.at, FALSE, TRUE, name, arg)
       /\ UNCHANGED release

Init ==
    /\ \E hid \in BOOLEAN :
         LET f == NewFolder(hid)
         IN /\ files = f.files
            /\ show_hidden = f.show_hidden
            /\ offset = f.offset
            /\ cursor = f.cursor
            /\ page = f.page
            /\ hovered = f.hovered
            /\ emits = f.emits
    /\ ws_row \in Rows(DIR_PADDING + 1, MaxRows)
    /\ aborted = FALSE
    /\ release = FALSE
    /\ last = [op |-> "new", arg |-> None, ret |-> FALSE,
               pre |-> None]
    /\ advances = -1

\* a pane showing a first listing of n entries in a terminal of the given
\* height: the state after Folder::new and the first Folder::update
InitNav ==
    /\ \E n \in 1..MaxNavLen, rows \in (DIR_PADDING + 1)..MaxNavRows :
         LET r == reconcile(NewFolder(FALSE),
                            [files |-> Items(Range(n)), b |-> TRUE],
                            limit(rows))
         IN /\ files = r.s.files
            /\ show_hidden = r.s.show_hidden
            /\ offset = r.s.offset
            /\ cursor = r.s.cursor
            /\ page = r.s.page
            /\ hovered = r.s.hovered
            /\ emits = r.s.emits
            /\ ws_row = rows
            /\ last = [op |-> "update", arg |-> None, ret |-> r.ret,
                       pre |-> Some([cursor |-> 0, offset |-> 0, page |-> 0,
                                     hovered |-> None])]
    /\ aborted = FALSE
    /\ release = FALSE
    /\ advances = 0

\* ---------------------------------------------------------------- actions
\* the count of next(3) calls made while no other call was made
Counted(step) ==
    advances' = IF advances >= 0 /\ advances < 7 /\ step = 3
                THEN advances + 1 ELSE -1

DoNext(step) ==
    /\ ~aborted
    /\ Apply(next(Self, step, limit(ws_row)), "next", step)
    /\ Counted(step)

DoPrev(step) ==
    /\ ~aborted
    /\ Apply(prev(Self, step, limit(ws_row)), "prev", step)
    /\ advances' = -1

DoHidden(show) ==
    /\ ~aborted
    /\ Apply(hidden(Self, show), "hidden", None)
    /\ advances' = -1

DoSelect(idx, state) ==
    /\ ~aborted
    /\ Apply(select(Self, idx, state), "select", None)
    /\ advances' = -1

DoSetPage(force) ==
    /\ ~aborted
    /\ Apply(set_page(Self, force, limit(ws_row)), "set_page", None)
    /\ advances' = -1

DoHover(path) ==
    /\ ~aborted
    /\ Apply(hover(Self, path, limit(ws_row)), "hover", path)
    /\ advances' = -1

DoHoverForce(file) ==
    /\ ~aborted
    /\ Apply(hover_force(Self, file, limit(ws_row)), "hover_force", file)
    /\ advances' = -1

DoUpdate(op) ==
    /\ ~aborted
    /\ \E r \in update(Self, op, limit(ws_row)) : Apply(r, "update", None)
    /\ advances' = -1

\* update, keeping the kind of the FilesOp and the report of the merge
DoUpdateKind(op) ==
    /\ ~aborted
    /\ \E r \in update(Self, op, limit(ws_row)) :
         Apply(r, "update", <<op.kind, r.merged>>)
    /\ advances' = -1

\* select, keeping the arguments of the call
DoSelectArgs(idx, state) ==
    /\ ~aborted
    /\ Apply(select(Self, idx, state), "select", <<idx, state>>)
    /\ advances' = -1

\* hidden, keeping the argument of the call
DoHiddenArg(show) ==
    /\ ~aborted
    /\ Apply(hidden(Self, show), "hidden", show)
    /\ advances' = -1

\* the terminal is resized between two calls
Resize(min, max) ==
    /\ ~aborted
    /\ \E rows \in Rows(min, max) : rows # ws_row /\ ws_row' = rows
    /\ last' = [op |-> "resize", arg |-> None, ret |-> FALSE, pre |-> None]
    /\ emits' = <<>>
    /\ advances' = -1
    /\ UNCHANGED <<files, show_hidden, offset, cursor, page, hovered, aborted,
                   release>>

OptBool == {None, Some(TRUE), Some(FALSE)}

\* the n largest values of usize
Huge(n) == {USIZE_MAX - k : k \in 0..(n - 1)}

\* every operation, over short listings.  A supported update is a Read:
\* without the kind in `last`, a Search update takes the same steps
\* (NextKind takes both)
Next ==
    \/ \E step \in 0..MaxStep : DoNext(step)
    \/ \E step \in 0..MaxStep : DoPrev(step)
    \/ \E force \in BOOLEAN : DoSetPage(force)
    \/ \E show \in OptBool : DoHidden(show)
    \/ \E idx \in {None} \cup {Some(i) : i \in 0..MaxPath}, state \in OptBool :
         DoSelect(idx, state)
    \/ \E path \in Paths : DoHover(path)
    \/ \E path \in Paths : DoHoverForce(File(path, FALSE))
    \/ \E s \in Listings : DoUpdate([kind |-> "Read", items |-> Items(s)])
    \/ DoUpdate([kind |-> "IOErr", items |-> <<>>])
    \/ Resize(DIR_PADDING + 1, MaxRows)

Spec == Init /\ [][Next]_vars

\* navigation only, over a fixed listing in a terminal of fixed height
NextNav ==
    \/ \E step \in 0..MaxNavStep \cup Huge(MaxHuge) : DoNext(step)
    \/ \E step \in 0..MaxNavStep \cup Huge(MaxHuge) : DoPrev(step)

SpecNav == InitNav /\ [][NextNav]_vars

\* navigation, hovering and listing updates in a terminal that is resized,
\* over listings long enough for the scroll margin to matter: the listings
\* are the runs 1..hi of paths in ascending or descending order
Run(lo, hi) == [i \in 1..(hi - lo + 1) |-> lo + i - 1]

Rev(lo, hi) == [i \in 1..(hi - lo + 1) |-> hi - i + 1]

ViewListings ==
    {<<>>} \cup
    UNION {{Run(1, hi), Rev(1, hi)} : hi \in 1..MaxViewPath}

InitView ==
    /\ LET f == NewFolder(FALSE)
       IN /\ files = f.files
          /\ show_hidden = f.show_hidden
          /\ offset = f.offset
          /\ cursor = f.cursor
          /\ page = f.page
          /\ hovered = f.hovered
          /\ emits = f.emits
    /\ ws_row \in Rows(MinViewRows, MaxViewRows)
    /\ aborted = FALSE
    /\ release = FALSE
    /\ last = [op |-> "new", arg |-> None, ret |-> FALSE, pre |-> None]
    /\ advances = -1

NextView ==
    \/ \E step \in 0..MaxViewStep \cup {USIZE_MAX} : DoNext(step)
    \/ \E step \in 0..MaxViewStep \cup {USIZE_MAX} : DoPrev(step)
    \/ \E force \in BOOLEAN : DoSetPage(force)
    \/ \E path \in 1..MaxViewPath : DoHover(path)
    \/ \E s \in ViewListings : DoUpdate([kind |-> "Read", items |-> Items(s)])
    \/ Resize(MinViewRows, MaxViewRows)

SpecView == InitView /\ [][NextView]_vars

\* listing updates of every kind, with navigation in between
NextKind ==
    \/ \E step \in 0..MaxStep : DoNext(step)
    \/ \E step \in 0..MaxStep : DoPrev(step)
    \/ \E kind \in {"Read", "Search"}, s \in Listings :
         DoUpdateKind([kind |-> kind, items |-> Items(s)])
    \/ DoUpdateKind([kind |-> "IOErr", items |-> <<>>])

SpecKind == Init /\ [][NextKind]_vars

\* selection and the hidden-file filter over a first listing of n entries
InitSel ==
    /\ \E n \in 1..MaxSelLen, hid \in BOOLEAN :
         LET r == reconcile(NewFolder(hid),
                            [files |-> Items(Range(n)), b |-> TRUE],
                            limit(MaxRows))
         IN /\ files = r.s.files
            /\ show_hidden = r.s.show_hidden
            /\ offset = r.s.offset
            /\ cursor = r.s.cursor
            /\ page = r.s.page
            /\ hovered = r.s.hovered
            /\ emits = r.s.emits
            /\ last = [op |-> "update", arg |-> None, ret |-> r.ret,
                       pre |-> Some([cursor |-> 0, offset |-> 0, page |-> 0,
                                     hovered |-> None])]
    /\ ws_row = MaxRows
    /\ aborted = FALSE
    /\ release = FALSE
    /\ advances = -1

NextSel ==
    \/ \E idx \in {None} \cup {Some(i) : i \in 0..MaxSelLen}, state \in OptBool :
         DoSelectArgs(idx, state)
    \/ \E show \in OptBool : DoHiddenArg(show)

SpecSel == InitSel /\ [][NextSel]_vars

\* ------------------------------------------------------------ properties
\* the viewport height of the current terminal
Height == limit(ws_row)

\* the selection flags, in listing order
Flags(fs) == [i \in 1..Len(fs) |-> fs[i].is_selected]

\* the cursor is a row of the window [offset, offset + Height)
InWindow == offset <= cursor /\ cursor < offset + Height

\* C1: over a fixed non-empty listing and a fixed viewport height >= 1,
\* after any sequence of next/prev calls the cursor is inside the visible
\* window: offset <= cursor < offset + height.
C1_CursorInsideWindow ==
    (Len(files) > 0 /\ Height >= 1 /\ last.op \in {"update", "next", "prev"})
        => InWindow

\* C2: after every public operation offset <= cursor holds, and
\* cursor < offset + height holds whenever height > 0 and the listing is
\* non-empty.
C2_WindowAfterEveryOperation ==
    (last.op \notin {"new", "resize"} /\ ~aborted)
        => /\ offset <= cursor
           /\ (Height > 0 /\ Len(files) > 0) => cursor < offset + Height

\* C3: an update that reports a change while a hovered snapshot exists whose
\* path is present in the new listing leaves the cursor at that path's new
\* index and the snapshot on the same path.
C3_CursorFollowsIdentity ==
    (/\ last.op = "update" /\ last.ret
     /\ last.pre[1].hovered # None
     /\ position(Self, last.pre[1].hovered[1].path) # None)
        => /\ cursor = position(Self, last.pre[1].hovered[1].path)[1]
           /\ hovered # None
           /\ hovered[1].path = last.pre[1].hovered[1].path

\* C4: in every reachable state with a non-empty listing the hovered
\* snapshot exists and its path is the path of the entry at the cursor.
C4_HoveredIsEntryAtCursor ==
    Len(files) > 0
        => /\ hovered # None
           /\ cursor < Len(files)
           /\ hovered[1].path = files[cursor + 1].path

\* an update has moved the listing under a cursor that is not on the first
\* entry, and a selection has been made since the snapshot was taken
C4_Witness ==
    /\ last.op = "select" /\ last.ret
    /\ Len(files) > 1 /\ cursor > 0
    /\ hovered # None
    /\ hovered[1].path = files[cursor + 1].path
    /\ hovered[1].is_selected # files[cursor + 1].is_selected

\* C5: in every reachable state offset <= len and cursor < max(1, len);
\* the cursor is 0 when the listing is empty.
C5_OffsetAndCursorInRange ==
    /\ offset <= Len(files)
    /\ cursor < Max(1, Len(files))

\* an update has shrunk a listing to a non-empty one: both the cursor and
\* the offset were clamped
C5_Witness ==
    /\ last.op = "update" /\ last.ret
    /\ last.pre[1].cursor > cursor
    /\ last.pre[1].offset > offset
    /\ Len(files) > 0 /\ offset = Len(files)

\* C6: every mutating operation returns whether observable state changed:
\* when it returns unchanged, cursor, offset, page, hovered snapshot,
\* selection flags and show_hidden are as before the call.
C6_ReturnReportsChange ==
    [][(last'.op \notin {"new", "resize"} /\ ~aborted' /\ ~last'.ret)
          => /\ cursor' = cursor /\ offset' = offset /\ page' = page
             /\ hovered' = hovered
             /\ Flags(files') = Flags(files)
             /\ show_hidden' = show_hidden]_vars

\* C7: after a changing update whose new listing does not contain the
\* previously hovered path, the cursor is min(old cursor, len - 1) (0 if the
\* listing is empty) and the snapshot is a copy of the entry at the cursor
\* (none if the listing is empty).
C7_HoveredPathRemoved ==
    (/\ last.op = "update" /\ last.ret
     /\ last.pre[1].hovered # None
     /\ position(Self, last.pre[1].hovered[1].path) = None)
        => IF Len(files) = 0
           THEN cursor = 0 /\ hovered = None
           ELSE /\ cursor = Min(last.pre[1].cursor, Len(files) - 1)
                /\ hovered = Some(files[cursor + 1])

\* the hovered entry was removed by an update that left the cursor on an
\* index that is neither the first nor the last of the new listing
C7_Witness ==
    /\ last.op = "update" /\ last.ret
    /\ last.pre[1].hovered # None
    /\ position(Self, last.pre[1].hovered[1].path) = None
    /\ cursor = last.pre[1].cursor
    /\ 0 < cursor /\ cursor < Len(files) - 1
    /\ hovered = Some(files[cursor + 1])

\* C8: next(0) and prev(0) are no-ops in every reachable state: they return
\* unchanged and leave cursor, offset, page and hovered snapshot as they were.
C8_ZeroStepIsNoOp ==
    [][(last'.op \in {"next", "prev"} /\ last'.arg = 0)
          => /\ ~last'.ret
             /\ cursor' = cursor /\ offset' = offset /\ page' = page
             /\ hovered' = hovered]_vars

\* C9: on a non-empty listing next(step) sets the cursor to
\* min(old + step, len - 1) and prev(step) to max(old - step, 0), and each
\* returns changed exactly when the cursor differs from its value before.
\* (A step 2^64 - k alone exceeds every index and every cursor.)
C9_StepIsClamped ==
    [][(last'.op \in {"next", "prev"} /\ Len(files) > 0)
          => /\ last'.op = "next"
                  => cursor' = IF last'.arg < 0 THEN Len(files) - 1
                               ELSE Min(cursor + last'.arg, Len(files) - 1)
             /\ last'.op = "prev"
                  => cursor' = IF last'.arg < 0 THEN 0
                               ELSE Max(cursor - last'.arg, 0)
             /\ cursor' >= 0 /\ cursor' <= Len(files) - 1
             /\ last'.ret = (cursor' # cursor)]_vars

\* C10: with height 10 and 25 entries, seven next(3) calls from cursor 0 and
\* offset 0 end with cursor 21 and offset 15, the window covering entries 15
\* to 24; and an offset advanced by next never exceeds max(0, len - height).
C10_SevenAdvancesOfThree ==
    [][/\ (Len(files') = 25 /\ limit(ws_row') = 10 /\ advances' = 7)
            => /\ cursor' = 21 /\ offset' = 15
               /\ window([Self EXCEPT !.offset = offset'], 10).slice = 15..24
       /\ (last'.op = "next" /\ offset' # offset)
            => offset' <= Max(0, Len(files) - Height)]_vars

\* the seventh next(3) of the example has returned
C10_Witness ==
    /\ Len(files) = 25 /\ Height = 10 /\ advances = 7
    /\ last.op = "next" /\ last.arg = 3 /\ last.ret

\* C11: a next or prev that returns leaves page = cursor / height (0 when
\* the height is 0), and has emitted one page-changed notification carrying
\* the new page exactly when the stored page changed, none when it stayed
\* the same; two consecutive navigation calls never notify the same page
\* value.
C11_PageNotifiedOncePerChange ==
    [][(last'.op \in {"next", "prev"} /\ ~aborted')
          => /\ page' = (IF Height = 0 THEN 0 ELSE cursor' \div Height)
             /\ emits' = (IF page' # page THEN <<<<"Pages", page'>>>>
                                         ELSE <<>>)
             /\ (last.op \in {"next", "prev"} /\ emits # <<>> /\ emits' # <<>>)
                   => emits'[1] # emits[1]]_vars

\* a next moved the cursor to a later page and the new page was notified
C11_Witness ==
    /\ last.op = "next" /\ last.ret
    /\ Height > 1 /\ page > 0 /\ page = cursor \div Height
    /\ emits = <<<<"Pages", page>>>>

\* C12: when the merge of an update reports no change the update is a
\* no-op: it returns unchanged, leaves listing, cursor, offset, page and
\* hovered snapshot untouched and emits no notification.
C12_UnchangedMergeIsNoOp ==
    [][(last'.op = "update" /\ last'.arg[2] = Some(FALSE))
          => /\ ~last'.ret /\ ~aborted'
             /\ files' = files /\ cursor' = cursor /\ offset' = offset
             /\ page' = page /\ hovered' = hovered
             /\ emits' = <<>>]_vars

\* an update of a non-empty listing with the cursor off the first entry
\* whose merge reported no change has returned
C12_Witness ==
    /\ last.op = "update" /\ last.arg[2] = Some(FALSE) /\ ~last.ret
    /\ Len(files) > 1 /\ cursor > 0 /\ emits = <<>>

\* C13: select(None, Some(b)) leaves every flag equal to b and returns
\* changed exactly when some flag differed from b before the call, so the
\* same call issued twice in a row returns unchanged the second time; a call
\* with an out-of-range index changes no flag and returns unchanged.
C13_SelectAllAndOutOfRange ==
    [][last'.op = "select"
          => LET idx == last'.arg[1]
                 state == last'.arg[2]
             IN /\ (idx = None /\ state # None)
                     => /\ Len(files') = Len(files)
                        /\ \A i \in 1..Len(files') :
                             files'[i].is_selected = state[1]
                        /\ last'.ret = (\E i \in 1..Len(files) :
                                          files[i].is_selected # state[1])
                        /\ (last.op = "select" /\ last.arg = last'.arg)
                             => ~last'.ret
                /\ (idx # None /\ idx[1] >= Len(files))
                     => files' = files /\ ~last'.ret]_vars

\* on five entries, all of them now selected, select(None, Some(TRUE)) has
\* returned unchanged
C13_Witness ==
    /\ last.op = "select" /\ last.arg = <<None, Some(TRUE)>> /\ ~last.ret
    /\ Len(files) = 5
    /\ \A i \in 1..Len(files) : files[i].is_selected

\* C14: hidden(show) flips show_hidden and emits exactly one refresh request
\* if show is absent or differs from the flag, and otherwise changes and
\* emits nothing; after hidden(Some(b)) show_hidden is b; the listing, the
\* cursor, the offset and the hovered snapshot are left as they were.
C14_HiddenTogglesAndRefreshes ==
    [][last'.op = "hidden"
          => LET show == last'.arg
             IN /\ IF show = None \/ show[1] # show_hidden
                   THEN /\ show_hidden' = ~show_hidden
                        /\ emits' = <<<<"Refresh", 0>>>>
                   ELSE /\ show_hidden' = show_hidden
                        /\ emits' = <<>>
                /\ show # None => show_hidden' = show[1]
                /\ files' = files /\ cursor' = cursor /\ offset' = offset
                /\ hovered' = hovered]_vars

\* hidden(Some(TRUE)) has found the flag already set and requested nothing
C14_Witness ==
    /\ last.op = "hidden" /\ last.arg = Some(TRUE)
    /\ show_hidden /\ emits = <<>>

\* C15: on an empty listing next, prev and hover return unchanged for any
\* step or path, and paginate and window return an empty slice without
\* failing, for any viewport height including 0.
C15_EmptyListing ==
    /\ [](Len(files) = 0
            => /\ ~window(Self, Height).panic
               /\ window(Self, Height).slice = {}
               /\ ~paginate_range(Self, Height).panic
               /\ paginate_range(Self, Height).start
                    = paginate_range(Self, Height).end
               /\ paginate(Self, Height) = {})
    /\ [][(last'.op \in {"next", "prev", "hover"} /\ Len(files) = 0)
             => ~last'.ret]_vars

\* a prev with a non-zero step has returned unchanged on an empty listing
\* shown in a terminal with usable rows
C15_Witness ==
    /\ last.op = "prev" /\ last.arg > 0 /\ ~last.ret
    /\ Len(files) = 0 /\ Height > 0 /\ hovered = None

\* C16: an update carrying a FilesOp other than Read or Search aborts
\* instead of being applied or ignored: no merge runs, nothing is changed or
\* emitted and no call follows; Read and Search always reach the merge.
C16_UnsupportedUpdateAborts ==
    [][/\ ~aborted
       /\ last'.op = "update"
            => IF last'.arg[1] \in {"Read", "Search"}
               THEN ~aborted' /\ last'.arg[2] # None
               ELSE /\ aborted' /\ last'.arg[2] = None
                    /\ files' = files /\ cursor' = cursor
                    /\ offset' = offset /\ page' = page
                    /\ hovered' = hovered /\ emits' = <<>>
       /\ aborted' => last'.op = "update"]_vars

\* an update of an unsupported kind has aborted a pane that shows entries
C16_Witness ==
    /\ aborted /\ last.op = "update" /\ last.arg[1] = "IOErr"
    /\ Len(files) > 0

\* C17: hover(path) returns unchanged if the path is the hovered one; if the
\* path is in the listing, afterwards the cursor is its index, the snapshot
\* has that path and the offset is the one next or prev gives for the exact
\* distance; if the path is not in the listing the cursor stays and the call
\* returns unchanged.
C17_HoverResolvesPath ==
    [][last'.op = "hover"
          => LET path == last'.arg
                 p == position(Self, path)
             IN IF hovered # None /\ hovered[1].path = path
                THEN /\ ~last'.ret
                     /\ cursor' = cursor /\ offset' = offset
                     /\ hovered' = hovered
                ELSE IF p # None
                THEN /\ cursor' = p[1]
                     /\ hovered' # None /\ hovered'[1].path = path
                     /\ last'.ret = (p[1] # cursor)
                     /\ offset' = IF p[1] > cursor
                                  THEN next(Self, p[1] - cursor, Height).s.offset
                                  ELSE prev(Self, cursor - p[1], Height).s.offset
                ELSE cursor' = cursor /\ ~last'.ret]_vars

\* a hover has moved the cursor to the path, inside the listing, and the
\* window is scrolled
C17_Witness ==
    /\ last.op = "hover" /\ last.ret
    /\ hovered # None /\ hovered[1].path = last.arg
    /\ cursor > 0 /\ cursor < Len(files) - 2
    /\ files[cursor + 1].path = last.arg
    /\ offset > 0

\* C18: paginate returns the page-aligned block holding the cursor: on a
\* non-empty listing with height h >= 1 and page = cursor / h, the entry at
\* the cursor is in the slice [start, end) with start = min(page * h, len - 1)
\* and end = min(start + h, len - 1), for every cursor position.
C18_PageWindowHoldsCursor ==
    (Len(files) > 0 /\ Height >= 1 /\ page = cursor \div Height /\ ~aborted)
        => /\ paginate_range(Self, Height).start
                = Min(page * Height, Len(files) - 1)
           /\ paginate_range(Self, Height).end
                = Min(paginate_range(Self, Height).start + Height,
                      Len(files) - 1)
           /\ cursor \in paginate(Self, Height)

\* C19: hover_force(entry) installs the entry as the hovered snapshot only
\* when the listing is empty (where hover changes nothing), and returns
\* changed exactly then; on a non-empty listing the snapshot afterwards is
\* never the detached entry: it has the path of an entry of the listing and
\* is either the snapshot from before the call or a copy of the entry at the
\* cursor.
C19_AdoptOnlyOnEmptyListing ==
    [][last'.op = "hover_force"
          => /\ last'.ret = (Len(files) = 0)
             /\ last'.ret => hovered' = Some(last'.arg)
             /\ Len(files) > 0
                  => /\ hovered' # None
                     /\ \E i \in 1..Len(files') :
                          files'[i].path = hovered'[1].path
                     /\ \/ hovered' = hovered
                        \/ hovered' = Some(files'[cursor' + 1])]_vars

\* a hover_force with a path that is not in the non-empty listing has
\* returned and the snapshot is still on an entry of the listing
C19_Witness ==
    /\ last.op = "hover_force" /\ ~last.ret
    /\ Len(files) > 0 /\ position(Self, last.arg.path) = None
    /\ hovered # None /\ hovered[1].path # last.arg.path

\* C20: in every reachable state with a non-empty listing, rect_current of
\* the hovered path computes its row as position - offset without unsigned
\* underflow, and the row is below the viewport height.
C20_HoveredRowInsideViewport ==
    (/\ Len(files) > 0 /\ hovered # None /\ Height >= 1
     /\ last.op \notin {"new", "resize"} /\ ~aborted)
        => /\ ~rect_current(Self, hovered[1].path).underflow
           /\ rect_current(Self, hovered[1].path).y # None
           /\ rect_current(Self, hovered[1].path).y[1] < Height
====
